---- MODULE Spec2Model ----
(***************************************************************************)
(* Model of the cloudstorage client library (hudora/gcs-client):           *)
(*   cloudstorage_api.py   listbucket and the _Bucket page iterator        *)
(*   stub_dispatcher.py    the HTTP dispatcher of the local storage stub   *)
(* Strings are sequences of one-character strings; None and an absent XML  *)
(* element are the empty sequence <<>>, a present value v is <<v>>.        *)
(***************************************************************************)
EXTENDS Integers, Sequences, FiniteSets, TLC

VARIABLES
  objects,   \* the store of the stub: filename -> content of the finalized objects
  bucket,    \* the _Bucket returned by listbucket: path, _options, _get_bucket_fut
  call,      \* the arguments listbucket was called with
  prev,      \* the finished listing a later listing resumes: its arguments and yield
  reqs,      \* the page requests issued to the transport, each with its response
  gens,      \* the generator frame of each iterator taken from the lister
  running,   \* the iterator whose next() is executing, 0 for the caller
  upload,    \* the resumable upload session: the stub's parts, the client's PUTs
  request,   \* the last request dispatched to an object path
  last,      \* the outcome of the last request dispatched to an object path
  header,    \* a content-range header value handed to _ContentRange
  parsed     \* the _ContentRange made from it

listVars == <<bucket, call, prev, reqs, gens, running>>
storeVars == <<upload, request, last>>
parseVars == <<header, parsed>>
vars == <<objects, bucket, call, prev, reqs, gens, running, upload, request, last,
          header, parsed>>

(***************************************************************************)
(* Bounds of the model.                                                    *)
(***************************************************************************)
\* object names of the container are ToKey(1) .. ToKey(NumKeys)
NumKeys == 5
\* prefixes passed to listbucket are ToKey(1) .. ToKey(NumPrefixes)
NumPrefixes == 2
\* max_keys passed to listbucket ranges over 1 .. MaxKeysArg
MaxKeysArg == 3

\* _MAX_GET_BUCKET_RESULT = 1000 in the source; scaled down so that containers
\* below, at and above one page, and at a multiple of the page, are enumerable.
MAX_GET_BUCKET_RESULT == 2

(***************************************************************************)
(* Strings.                                                                *)
(***************************************************************************)
Digit == <<"0", "1", "2", "3", "4", "5", "6", "7", "8", "9">>

\* code point of the characters the model uses (Python compares str by code point)
Ord(c) ==
  CASE c = "\n" -> 10
    [] c = " " -> 32
    [] c = "*" -> 42
    [] c = "-" -> 45
    [] c = "/" -> 47
    [] c \in {Digit[i] : i \in 1..10} -> 47 + (CHOOSE i \in 1..10 : Digit[i] = c)
    [] c = ":" -> 58
    [] c = "=" -> 61
    [] c = "B" -> 66
    [] c = "a" -> 97
    [] c = "b" -> 98
    [] OTHER -> 120

\* s < t for Python str
StrLess(s, t) ==
  \E i \in 1..(Len(t)) :
    /\ i <= Len(s) + 1
    /\ \A j \in 1..(i - 1) : s[j] = t[j]
    /\ \/ i = Len(s) + 1
       \/ Ord(s[i]) < Ord(t[i])

\* s.startswith(p)
StartsWith(s, p) == Len(p) <= Len(s) /\ SubSeq(s, 1, Len(p)) = p

\* str(n) for n >= 0
RECURSIVE Str(_)
Str(n) == IF n < 10 THEN <<Digit[n + 1]>> ELSE Append(Str(n \div 10), Digit[(n % 10) + 1])

IsDigits(s) == Len(s) > 0 /\ \A i \in 1..Len(s) : s[i] \in {Digit[d] : d \in 1..10}

\* long(s) for a string of decimal digits
RECURSIVE Long(_)
Long(s) ==
  IF Len(s) = 0 THEN 0
  ELSE 10 * Long(SubSeq(s, 1, Len(s) - 1))
       + ((CHOOSE d \in 1..10 : Digit[d] = s[Len(s)]) - 1)

\* the i-th string over {a, b} in length-then-alphabet order: a, b, aa, ab, ba, ...
RECURSIVE ToKey(_)
ToKey(i) ==
  IF i = 0 THEN <<>>
  ELSE LET r == IF i % 2 = 0 THEN 2 ELSE 1
       IN Append(ToKey((i - r) \div 2), <<"a", "b">>[r])

Keys == {ToKey(i) : i \in 1..NumKeys}
Prefixes == {ToKey(i) : i \in 1..NumPrefixes}

\* a set of strings as the ascending list
\* the element of rank i is the one with i - 1 elements below it
Ranked(T) ==
  [i \in 1..Cardinality(T) |->
     CHOOSE x \in T : Cardinality({y \in T : StrLess(y, x)}) = i - 1]

\* (the singleton binds the set as a value, computed once)
Sorted(S) == CHOOSE seq \in {Ranked(T) : T \in {S}} : TRUE

\* truth value of an optional str argument, and of an optional int argument
TruthyStr(opt) == Len(opt) > 0 /\ Len(opt[1]) > 0
TruthyInt(opt) == Len(opt) > 0 /\ opt[1] # 0

(***************************************************************************)
(* stub_dispatcher.py: the header classes.  A header value is a string in  *)
(* which the words "bytes ", "bytes: " and "bytes" are one element each.   *)
(***************************************************************************)
Digits == {Digit[d] : d \in 1..10}

\* '%d' % n
FormatInt(n) == IF n < 0 THEN <<"-">> \o Str(0 - n) ELSE Str(n)

\* _Header.__init__: the value of the header, None when it is not sent
HeaderValue(headers, name) == IF name \in DOMAIN headers THEN <<headers[name]>> ELSE <<>>

\* the length of the run of decimal digits of s from position from on
RECURSIVE DigitRun(_, _)
DigitRun(s, from) ==
  IF from <= Len(s) /\ s[from] \in Digits THEN 1 + DigitRun(s, from + 1) ELSE 0

\* '$' of a Python pattern at position pos of s: the end of the string, or just
\* before a newline that ends the string
Dollar(s, pos) == pos = Len(s) + 1 \/ (pos = Len(s) /\ s[pos] = "\n")

\* the groups of RE_PATTERN once <digits>-<digits>/ has been matched up to the
\* "/" at position slash: n3 digits or a "*" follow, then '$'
RE_PATTERN_total(s, dash, slash, n3) ==
  LET stop == slash + 1 + (IF n3 >= 1 THEN n3 ELSE 1)
  IN IF /\ n3 >= 1 \/ (slash + 1 <= Len(s) /\ s[slash + 1] = "*")
        /\ Dollar(s, stop)
     THEN <<[g1 |-> SubSeq(s, 2, dash - 1),
             g2 |-> SubSeq(s, dash + 1, slash - 1),
             g3 |-> SubSeq(s, slash + 1, stop - 1)]>>
     ELSE <<>>

\* RE_PATTERN after 'bytes <digits>' up to position dash: "-", n2 digits, "/"
RE_PATTERN_end(s, dash, n2) ==
  IF /\ dash <= Len(s) /\ s[dash] = "-"
     /\ n2 >= 1
     /\ dash + 1 + n2 <= Len(s) /\ s[dash + 1 + n2] = "/"
  THEN RE_PATTERN_total(s, dash, dash + 1 + n2, DigitRun(s, dash + 2 + n2))
  ELSE <<>>

\* RE_PATTERN after 'bytes ': n1 digits from position 2 on
RE_PATTERN_start(s, n1) ==
  IF n1 >= 1 THEN RE_PATTERN_end(s, 2 + n1, DigitRun(s, 3 + n1)) ELSE <<>>

\* RE_PATTERN.match(value) for ^bytes ([0-9]+)-([0-9]+)/([0-9]+|\*)$ :
\* <<>> for no match, else the three groups
RE_PATTERN_match(s) ==
  IF Len(s) >= 1 /\ s[1] = "bytes " THEN RE_PATTERN_start(s, DigitRun(s, 2)) ELSE <<>>

\* the rest of _ContentRange.__init__ for a truthy value: the match and the
\* attributes start, end, finished
ContentRange_match(value, result) ==
  IF Len(result) = 0
  THEN [value |-> value, raised |-> "ValueError", attrs |-> <<>>]
  ELSE [value |-> value, raised |-> "",
        attrs |-> <<[start |-> Long(result[1].g1),
                     end |-> Long(result[1].g2),
                     finished |-> result[1].g3 # <<"*">>]>>]

\* _ContentRange.__init__ after _Header.__init__ has set self.value
ContentRange_init(value) ==
  IF TruthyStr(value)
  THEN ContentRange_match(value, RE_PATTERN_match(value[1]))
  ELSE [value |-> value, raised |-> "", attrs |-> <<>>]

\* _ContentRange(headers): value, the exception __init__ raises ("" for none),
\* and the attributes start, end, finished, which exist only when value is truthy
ContentRange(headers) == ContentRange_init(HeaderValue(headers, "content-range"))

\* s.split(c)
RECURSIVE Split(_, _)
Split(s, c) ==
  IF \A i \in 1..Len(s) : s[i] # c THEN <<s>>
  ELSE LET i == CHOOSE j \in 1..Len(s) : s[j] = c /\ \A k \in 1..(j - 1) : s[k] # c
       IN <<SubSeq(s, 1, i - 1)>> \o Split(SubSeq(s, i + 1, Len(s)), c)

\* _Range(headers).value: (start, end), end None without the header; raised is
\* the exception of the unpacking or of long()
Range(headers) ==
  LET value == HeaderValue(headers, "range")
  IN IF TruthyStr(value)
     THEN LET tail == Split(value[1], "=")
              parts == Split(tail[Len(tail)], "-")
          IN IF Len(parts) # 2 \/ ~IsDigits(parts[1]) \/ ~IsDigits(parts[2])
             THEN [raised |-> "ValueError", start |-> 0, end |-> <<>>]
             ELSE [raised |-> "", start |-> Long(parts[1]), end |-> <<Long(parts[2])>>]
     ELSE [raised |-> "", start |-> 0, end |-> <<>>]

(***************************************************************************)
(* The storage stub (cloudstorage_stub.CloudStorageStub).                  *)
(***************************************************************************)
BucketPath == <<"/", "B">>

FileName(key) == BucketPath \o <<"/">> \o key

\* gs_stub.get_bucket(bucketpath, prefix, marker, max_keys): the stats of the
\* objects of the bucket whose name has the prefix and follows the marker
\* (exclusive), ascending by filename, at most max_keys of them.
get_bucket_stats(objs, all, n) ==
  [i \in 1..n |-> [filename |-> all[i], st_size |-> Len(objs[all[i]])]]

get_bucket_first(objs, all, max_keys) ==
  get_bucket_stats(objs, all, IF Len(all) < max_keys THEN Len(all) ELSE max_keys)

get_bucket_match(objs, bucketpath, prefix, marker) ==
  Sorted({f \in DOMAIN objs :
            /\ StartsWith(f, bucketpath \o <<"/">> \o prefix)
            /\ marker # <<>> => StrLess(bucketpath \o <<"/">> \o marker, f)})

get_bucket(objs, bucketpath, prefix, marker, max_keys) ==
  CHOOSE stats \in {get_bucket_first(objs, all, max_keys) :
                      all \in {get_bucket_match(objs, bucketpath, prefix, marker)}} : TRUE

(***************************************************************************)
(* stub_dispatcher.py                                                      *)
(***************************************************************************)
\* _get_param(param, param_dict, default)
\* (a value of the query is a string, the default of max-keys an integer)
get_param(param, param_dict, default) ==
  IF param \in DOMAIN param_dict
  THEN LET result == param_dict[param]
       IN IF param = "max-keys" /\ result # <<>> THEN Long(result) ELSE result
  ELSE default

\* mutant: the continuation marker is written only past the page cap
NextMarkerOf_PastCap(stats, last_object_name) ==
  IF Len(stats) > MAX_GET_BUCKET_RESULT THEN <<last_object_name>> ELSE <<>>

\* if len(stats) == _MAX_GET_BUCKET_RESULT: the NextMarker element
NextMarkerOf(stats, last_object_name) ==
  IF Len(stats) = MAX_GET_BUCKET_RESULT THEN <<last_object_name>> ELSE <<>>

\* the key of a stat: stat.filename[len(bucketpath) + 1:]
KeyOfStat(bucketpath, stat) == SubSeq(stat.filename, Len(bucketpath) + 2, Len(stat.filename))

\* the ListBucketResult built from the stats (no MaxKeys element is written)
ListBucketResult(bucketpath, stats, next_marker) ==
  [method |-> "GET", status_code |-> 200, raised |-> "",
   headers |-> [h \in {"content-type"} |-> "application/xml"],
   content |-> [Contents |-> [i \in 1..Len(stats) |->
                                [Key |-> KeyOfStat(bucketpath, stats[i]),
                                 Size |-> Str(stats[i].st_size)]],
                NextMarker |-> next_marker,
                MaxKeys |-> <<>>]]

\* last_object_name after the loop over the stats ('' when there is none)
LastObjectName(bucketpath, stats) ==
  IF Len(stats) = 0 THEN <<>> ELSE KeyOfStat(bucketpath, stats[Len(stats)])

\* mutant: the continuation marker is written on every page that is not empty
handle_get_bucket_page_EveryPage(bucketpath, stats) ==
  ListBucketResult(bucketpath, stats,
                   IF Len(stats) = 0 THEN <<>> ELSE <<LastObjectName(bucketpath, stats)>>)

\* _handle_get_bucket from the stats gs_stub.get_bucket returned
handle_get_bucket_page(bucketpath, stats) ==
  ListBucketResult(bucketpath, stats,
                   NextMarkerOf(stats, LastObjectName(bucketpath, stats)))

\* _handle_get_bucket(gs_stub, bucketpath, param_dict): the response, its XML
\* body held as the record of the elements it carries.
handle_get_bucket(objs, bucketpath, param_dict) ==
  CHOOSE result \in
    {handle_get_bucket_page(bucketpath, stats) :
       stats \in {get_bucket(objs, bucketpath,
                             get_param("prefix", param_dict, <<>>),
                             get_param("marker", param_dict, <<>>),
                             get_param("max-keys", param_dict, MAX_GET_BUCKET_RESULT))}} : TRUE

(***************************************************************************)
(* Object requests: POST, PUT, GET, HEAD, DELETE of an object path.        *)
(***************************************************************************)
NoUpload ==
  [token |-> 0, filename |-> <<>>, parts |-> {}, open |-> FALSE,
   sent |-> <<>>, acked |-> 0, fin |-> "none"]

NoRequest == [method |-> "", filename |-> <<>>, headers |-> <<>>, payload |-> <<>>]

\* dispatch(method, headers, url, payload) of an object path
Request(method, filename, headers, payload) ==
  [method |-> method, filename |-> filename, headers |-> headers, payload |-> payload]

NoResponse == [method |-> "", status_code |-> 0, raised |-> "", headers |-> <<>>, content |-> <<>>]

NotParsed == [value |-> <<>>, raised |-> "none", attrs |-> <<>>]

Response(method, status, headers, content) ==
  [method |-> method, status_code |-> status, raised |-> "", headers |-> headers,
   content |-> content]

Raised(method, exception) ==
  [method |-> method, status_code |-> 0, raised |-> exception, headers |-> <<>>,
   content |-> <<>>]

RECURSIVE Concat(_)
Concat(seqs) == IF Len(seqs) = 0 THEN <<>> ELSE seqs[1] \o Concat(Tail(seqs))

\* the parts of a session in the order of their start offsets
RECURSIVE ByStart(_)
ByStart(parts) ==
  IF parts = {} THEN <<>>
  ELSE LET m == CHOOSE x \in parts : \A y \in parts : x.start <= y.start
       IN <<m.content>> \o ByStart(parts \ {m})

\* gs_stub.put_continue_creation(token, content, content_range, last): an
\* unknown or finished token and a range that is not the length of the content
\* are ValueErrors; a chunk is kept under its range (a resubmitted range
\* replaces the chunk); last ends the creation.
put_continue_creation(up, token, content, content_range, final) ==
  IF token # up.token \/ ~up.open
  THEN [raised |-> "ValueError", parts |-> up.parts, final |-> FALSE]
  ELSE IF Len(content) > 0 /\ Len(content) # content_range[2] - content_range[1] + 1
  THEN [raised |-> "ValueError", parts |-> up.parts, final |-> FALSE]
  ELSE [raised |-> "",
        parts |-> IF Len(content) > 0
                  THEN {q \in up.parts : <<q.start, q.end>> # content_range}
                         \cup {[start |-> content_range[1], end |-> content_range[2],
                                content |-> content]}
                  ELSE up.parts,
        final |-> final]

\* the object the finished creation leaves: the chunks in offset order
end_creation(parts) == Concat(ByStart(parts))

\* gs_stub.get_object(filename, start, end): the bytes start..end, both inclusive
get_object(objs, filename, start, end) == SubSeq(objs[filename], start + 1, end + 1)

\* a failed _handle_put: the exception leaves the session as it was
PutRaised(up, exception) ==
  [raised |-> exception, status |-> 0, parts |-> up.parts, final |-> FALSE]

\* gs_stub.put_continue_creation(token, payload, (start, end), last) as
\* _handle_put calls it, answered with status when the stub accepts the chunk
PutCall(up, payload, attrs, final, status) ==
  LET put == put_continue_creation(up, up.token, payload, <<attrs.start, attrs.end>>, final)
  IN IF put.raised # "" THEN PutRaised(up, put.raised)
     ELSE [raised |-> "", status |-> status, parts |-> put.parts, final |-> final]

\* mutant: a payload without a content-range is taken as the end of the session
handle_put_range_Lenient(up, content_range, payload) ==
  IF content_range.raised # ""
  THEN PutRaised(up, content_range.raised)
  ELSE IF TruthyStr(content_range.value) /\ ~content_range.attrs[1].finished
  THEN PutCall(up, payload, content_range.attrs[1], FALSE, 308)
  ELSE IF Len(content_range.attrs) = 0
  THEN [raised |-> "", status |-> 200, parts |-> up.parts, final |-> TRUE]
  ELSE PutCall(up, payload, content_range.attrs[1], TRUE, 200)

\* the branches of _handle_put on the parsed content-range
handle_put_range(up, content_range, payload) ==
  IF content_range.raised # ""
  THEN PutRaised(up, content_range.raised)
  ELSE IF TruthyStr(content_range.value) /\ ~content_range.attrs[1].finished
  THEN PutCall(up, payload, content_range.attrs[1], FALSE, 308)
  ELSE IF TruthyStr(content_range.value) \/ Len(payload) = 0
  THEN IF Len(content_range.attrs) = 0
       THEN PutRaised(up, "AttributeError")
       ELSE PutCall(up, payload, content_range.attrs[1], TRUE, 200)
  ELSE PutRaised(up, "ValueError")

\* _handle_put(gs_stub, filename, param_dict, headers, payload): the exception
\* raised ("" for none), the status of the response, and the chunks and the
\* end of the session afterwards
handle_put(up, headers, payload) == handle_put_range(up, ContentRange(headers), payload)

\* _handle_head(gs_stub, filename)
handle_head(objs, method, filename) ==
  IF filename \notin DOMAIN objs
  THEN Response(method, 404, <<>>, <<>>)
  ELSE Response(method, 200, [h \in {"content-length"} |-> Len(objs[filename])], <<>>)

\* min(st_size - 1, end) of Python 2, where None is below every number
PyMin(n, end) == IF end = <<>> THEN <<>> ELSE <<IF n < end[1] THEN n ELSE end[1]>>

\* 'bytes: %d-%d/%d' % (start, end, st_size)
FormatRange(start, end, st_size) ==
  <<"bytes: ">> \o FormatInt(start) \o <<"-">> \o FormatInt(end) \o <<"/">> \o FormatInt(st_size)

\* filename.rfind('/')
RFind(s, c) ==
  IF \A i \in 1..Len(s) : s[i] # c THEN 0 - 1
  ELSE (CHOOSE i \in 1..Len(s) : s[i] = c /\ \A j \in (i + 1)..Len(s) : s[j] # c) - 1

\* _handle_get(gs_stub, filename, param_dict, headers)
handle_get(objs, filename, param_dict, headers) ==
  IF RFind(filename, "/") = 0
  THEN handle_get_bucket(objs, filename, param_dict)
  ELSE LET result == handle_head(objs, "GET", filename)
           range == Range(headers)
           st_size == result.headers["content-length"]
           end == PyMin(st_size - 1, range.end)
       IN IF range.raised # "" THEN Raised("GET", range.raised)
          ELSE IF "content-length" \notin DOMAIN result.headers THEN Raised("GET", "KeyError")
          ELSE IF end = <<>> THEN Raised("GET", "TypeError")
          ELSE Response("GET", result.status_code,
                        [h \in {"content-length", "content-range"} |->
                           IF h = "content-length" THEN st_size
                           ELSE FormatRange(range.start, end[1], st_size)],
                        get_object(objs, filename, range.start, end[1]))

(***************************************************************************)
(* cloudstorage_api.py: listbucket and _Bucket                             *)
(***************************************************************************)
NoPage == [Contents |-> <<>>, NextMarker |-> <<>>, MaxKeys |-> <<>>]

NoBucket == [path |-> <<>>, options |-> <<>>, fut |-> 0]

NewGen == [pc |-> "start", total |-> 0, root |-> NoPage, pos |-> 0, out |-> <<>>]

NoCall == [marker |-> <<>>, prefix |-> <<>>, max_keys |-> <<>>]

\* urllib.urlencode(options): every value through str(); the names of the model
\* hold no character that quoting changes.
urlencode(options) ==
  [k \in DOMAIN options |-> IF k = "max-keys" THEN Str(options[k]) ELSE options[k]]

\* api.get_bucket_async(path + '?' + urlencode(options)): one more request in flight
get_bucket_async(rs, path, options) ==
  Append(rs, [path |-> path, query |-> urlencode(options), resp |-> <<>>])

\* options of listbucket: an argument is passed on when it is truthy
ListOptions(marker, prefix, max_keys) ==
  LET dom == (IF TruthyStr(marker) THEN {"marker"} ELSE {})
             \cup (IF TruthyInt(max_keys) THEN {"max-keys"} ELSE {})
             \cup (IF TruthyStr(prefix) THEN {"prefix"} ELSE {})
  IN [k \in dom |-> CASE k = "marker" -> marker[1]
                      [] k = "max-keys" -> max_keys[1]
                      [] OTHER -> prefix[1]]

\* listbucket(bucket, marker, prefix, max_keys) and _Bucket.__init__
Construct(marker, prefix, max_keys) ==
  LET options == ListOptions(marker, prefix, max_keys)
  IN /\ bucket' = [path |-> BucketPath, options |-> options, fut |-> Len(reqs) + 1]
     /\ reqs' = get_bucket_async(reqs, BucketPath, options)
     /\ call' = [marker |-> marker, prefix |-> prefix, max_keys |-> max_keys]
     /\ gens' = [g \in DOMAIN gens |-> NewGen]
     /\ running' = 0

ListBucket(marker, prefix, max_keys) ==
  /\ bucket = NoBucket
  /\ Construct(marker, prefix, max_keys)
  /\ UNCHANGED <<storeVars, parseVars, objects, prev>>

\* the key of a yielded path: the marker that resumes a listing after it
KeyOfPath(filename) == SubSeq(filename, Len(BucketPath) + 2, Len(filename))

\* listbucket(bucket, marker=<key of the last path of the finished listing>):
\* the listing that resumes a finished one.
Relist ==
  /\ bucket # NoBucket
  /\ running = 0
  /\ prev = <<>>
  /\ gens[1].pc = "done"
  /\ gens[1].out # <<>>
  /\ \A g \in DOMAIN gens : g > 1 => gens[g].pc = "start"
  /\ prev' = <<[call |-> call, out |-> gens[1].out]>>
  /\ Construct(<<KeyOfPath(gens[1].out[Len(gens[1].out)].filename)>>, <<>>, <<>>)
  /\ UNCHANGED <<storeVars, parseVars, objects>>

\* next() of the g-th iterator of the lister: the generator starts, or goes on
\* after its yield (total += 1 and the next element of the page).
Resume(g) ==
  /\ bucket # NoBucket
  /\ running = 0
  /\ gens[g].pc \in {"start", "yielded"}
  /\ g > 1 => gens[g - 1].pc # "start"
  /\ gens' = [gens EXCEPT ![g] =
        IF @.pc = "start"
        THEN [@ EXCEPT !.pc = "while", !.total = 0]
        ELSE [@ EXCEPT !.pc = "for", !.total = @ + 1, !.pos = @ + 1]]
  /\ running' = g
  /\ UNCHANGED <<storeVars, parseVars, objects, bucket, call, prev, reqs>>

\* while self._get_bucket_fut: left when the future is None
Stop(g) ==
  /\ running = g
  /\ gens[g].pc = "while"
  /\ bucket.fut = 0
  /\ gens' = [gens EXCEPT ![g].pc = "done"]
  /\ running' = 0
  /\ UNCHANGED <<storeVars, parseVars, objects, bucket, call, prev, reqs>>

\* errors.check_status(status, [200])
check_status(status) == status = 200

\* mutant: the status of the response is not checked
GetResult_Unchecked(g) ==
  /\ running = g
  /\ gens[g].pc = "while"
  /\ bucket.fut # 0
  /\ reqs[bucket.fut].resp # <<>>
  /\ LET r == reqs[bucket.fut].resp[1]
     IN /\ gens' = [gens EXCEPT ![g].pc = "for", ![g].root = r.content, ![g].pos = 1]
        /\ running' = g
  /\ UNCHANGED <<storeVars, parseVars, objects, bucket, call, prev, reqs>>

\* get_result() of the pending future, check_status, ET.fromstring
GetResult(g) ==
  /\ running = g
  /\ gens[g].pc = "while"
  /\ bucket.fut # 0
  /\ reqs[bucket.fut].resp # <<>>
  /\ LET r == reqs[bucket.fut].resp[1]
     IN IF check_status(r.status_code)
        THEN /\ gens' = [gens EXCEPT ![g].pc = "for", ![g].root = r.content, ![g].pos = 1]
             /\ running' = g
        ELSE /\ gens' = [gens EXCEPT ![g].pc = "raised"]
             /\ running' = 0
  /\ UNCHANGED <<storeVars, parseVars, objects, bucket, call, prev, reqs>>

\* yield common.CSFileStat(path + '/' + Key, long(Size), ETag)
Yield(g) ==
  /\ running = g
  /\ gens[g].pc = "for"
  /\ gens[g].pos <= Len(gens[g].root.Contents)
  /\ LET contents == gens[g].root.Contents[gens[g].pos]
         stat == [filename |-> bucket.path \o <<"/">> \o contents.Key,
                  st_size |-> Long(contents.Size)]
     IN gens' = [gens EXCEPT ![g].pc = "yielded", ![g].out = Append(@, stat)]
  /\ running' = 0
  /\ UNCHANGED <<storeVars, parseVars, objects, bucket, call, prev, reqs>>

\* mutant: a page without a MaxKeys element is taken as the last one
MorePages_WithMaxKeys(max_keys, total, next_marker) ==
  /\ max_keys # <<>> /\ total < Long(max_keys[1])
  /\ next_marker # <<>>

\* (max_keys is None or total < int(max_keys.text)) and next_marker is not None
MorePages(max_keys, total, next_marker) ==
  /\ max_keys = <<>> \/ total < Long(max_keys[1])
  /\ next_marker # <<>>

\* mutant: the options are replaced by the marker alone
SetMarker_Alone(options, text) ==
  [k \in {"marker"} |-> text]

\* self._options['marker'] = next_marker.text
SetMarker(options, text) ==
  [k \in DOMAIN options \cup {"marker"} |-> IF k = "marker" THEN text ELSE options[k]]

\* mutant: the page is left one element early
EndPage_Early(g) ==
  /\ running = g
  /\ gens[g].pc = "for"
  /\ gens[g].pos >= Len(gens[g].root.Contents)
  /\ LET max_keys == gens[g].root.MaxKeys
         next_marker == gens[g].root.NextMarker
     IN IF MorePages(max_keys, gens[g].total, next_marker)
        THEN LET options == SetMarker(bucket.options, next_marker[1])
             IN /\ bucket' = [bucket EXCEPT !.options = options, !.fut = Len(reqs) + 1]
                /\ reqs' = get_bucket_async(reqs, bucket.path, options)
        ELSE /\ bucket' = [bucket EXCEPT !.fut = 0]
             /\ reqs' = reqs
  /\ gens' = [gens EXCEPT ![g].pc = "while"]
  /\ UNCHANGED <<storeVars, parseVars, objects, call, prev, running>>

\* after the last element of the page: fetch the next page or drop the future
EndPage(g) ==
  /\ running = g
  /\ gens[g].pc = "for"
  /\ gens[g].pos > Len(gens[g].root.Contents)
  /\ LET max_keys == gens[g].root.MaxKeys
         next_marker == gens[g].root.NextMarker
     IN IF MorePages(max_keys, gens[g].total, next_marker)
        THEN LET options == SetMarker(bucket.options, next_marker[1])
             IN /\ bucket' = [bucket EXCEPT !.options = options, !.fut = Len(reqs) + 1]
                /\ reqs' = get_bucket_async(reqs, bucket.path, options)
        ELSE /\ bucket' = [bucket EXCEPT !.fut = 0]
             /\ reqs' = reqs
  /\ gens' = [gens EXCEPT ![g].pc = "while"]
  /\ UNCHANGED <<storeVars, parseVars, objects, call, prev, running>>

\* the transport of the local stub: dispatch('GET', headers, url, None) of a
\* bucket path answers the request in flight
StubRespond(i) ==
  /\ reqs[i].resp = <<>>
  /\ reqs' = [reqs EXCEPT ![i].resp =
                 <<handle_get(objects, reqs[i].path, reqs[i].query, <<>>)>>]
  /\ UNCHANGED <<storeVars, parseVars, objects, bucket, call, prev, gens, running>>

(***************************************************************************)
(* Spec: one lister over a container of the local stub.                    *)
(***************************************************************************)
\* iterators taken from one lister (each its own generator frame)
NumIters == 2

Containers ==
  {[f \in {FileName(k) : k \in S} |-> KeyOfPath(f)] : S \in SUBSET Keys}

MarkerArgs == {<<>>} \cup {<<k>> : k \in Keys}
PrefixArgs == {<<>>} \cup {<<p>> : p \in Prefixes}
MaxKeysArgs == {<<>>} \cup {<<n>> : n \in 1..MaxKeysArg}

Init ==
  /\ objects \in Containers
  /\ bucket = NoBucket
  /\ call = NoCall
  /\ prev = <<>>
  /\ reqs = <<>>
  /\ gens = [g \in 1..NumIters |-> NewGen]
  /\ running = 0
  /\ upload = NoUpload
  /\ request = NoRequest
  /\ last = NoResponse
  /\ header = <<>>
  /\ parsed = NotParsed

Next ==
  \/ \E m \in MarkerArgs, p \in PrefixArgs, k \in MaxKeysArgs : ListBucket(m, p, k)
  \/ Relist
  \/ \E g \in DOMAIN gens : Resume(g)
  \/ \E g \in DOMAIN gens : GetResult(g)
  \/ \E g \in DOMAIN gens : Yield(g)
  \/ \E g \in DOMAIN gens : EndPage(g)
  \/ \E g \in DOMAIN gens : Stop(g)
  \/ \E i \in DOMAIN reqs : StubRespond(i)

Spec == Init /\ [][Next]_vars

(***************************************************************************)
(* SpecAny: one lister over an arbitrary transport (the Transport contract *)
(* of storage_api: a request is answered with some status and some page).  *)
(***************************************************************************)
\* entries of a page of the arbitrary transport: 0 .. MaxPageLen
MaxPageLen == 1
\* the arbitrary transport ends the listing at its MaxRequests-th page
MaxRequests == 3
\* iterators taken from the lister over the arbitrary transport
NumAnyIters == 1

AnyPages(final) ==
  {[Contents |-> [i \in 1..n |-> [Key |-> Sorted(Keys)[i], Size |-> <<"0">>]],
    NextMarker |-> nm,
    MaxKeys |-> mk] :
     n \in 0..MaxPageLen,
     nm \in IF final THEN {<<>>} ELSE {<<>>, <<ToKey(1)>>},
     mk \in {<<>>} \cup {<<Str(k)>> : k \in 1..MaxPageLen}}

AnyResponses(final) ==
  {[status_code |-> 200, content |-> page] : page \in AnyPages(final)}
    \cup {[status_code |-> 404, content |-> page] :
             page \in {NoPage, [NoPage EXCEPT !.Contents =
                                   <<[Key |-> ToKey(1), Size |-> <<"0">>]>>]}}

\* the transport answers the request in flight
AnyRespond(i) ==
  /\ reqs[i].resp = <<>>
  /\ \E r \in AnyResponses(Len(reqs) >= MaxRequests) :
       reqs' = [reqs EXCEPT ![i].resp = <<r>>]
  /\ UNCHANGED <<storeVars, parseVars, objects, bucket, call, prev, gens, running>>

InitAny ==
  /\ objects = <<>>
  /\ bucket = NoBucket
  /\ call = NoCall
  /\ prev = <<>>
  /\ reqs = <<>>
  /\ gens = [g \in 1..NumIters |-> NewGen]
  /\ running = 0
  /\ upload = NoUpload
  /\ request = NoRequest
  /\ last = NoResponse
  /\ header = <<>>
  /\ parsed = NotParsed

NextAny ==
  \/ \E k \in {<<>>} \cup {<<n>> : n \in 1..MaxPageLen} : ListBucket(<<>>, <<>>, k)
  \/ \E g \in 1..NumAnyIters : Resume(g)
  \/ \E g \in DOMAIN gens : GetResult(g)
  \/ \E g \in DOMAIN gens : Yield(g)
  \/ \E g \in DOMAIN gens : EndPage(g)
  \/ \E g \in DOMAIN gens : Stop(g)
  \/ \E i \in DOMAIN reqs : AnyRespond(i)

SpecAny == InitAny /\ [][NextAny]_vars

(***************************************************************************)
(* FairSpec: Spec with an iteration that is carried on.                     *)
(***************************************************************************)
\* the lister of Spec with NumAnyIters iterators taken from it
InitFair ==
  /\ objects \in Containers
  /\ bucket = NoBucket
  /\ call = NoCall
  /\ prev = <<>>
  /\ reqs = <<>>
  /\ gens = [g \in 1..NumAnyIters |-> NewGen]
  /\ running = 0
  /\ upload = NoUpload
  /\ request = NoRequest
  /\ last = NoResponse
  /\ header = <<>>
  /\ parsed = NotParsed

\* the caller goes on calling next() on every iterator it has taken, the
\* generator runs on to its next yield or its end, and dispatch answers every
\* request (the stub answers within the call)
Fairness ==
  /\ \A g \in 1..NumAnyIters :
       WF_vars(Resume(g) \/ GetResult(g) \/ Yield(g) \/ EndPage(g) \/ Stop(g))
  /\ WF_vars(\E i \in DOMAIN reqs : StubRespond(i))

\* the listing over the stub with an iteration that is carried on
FairSpec == InitFair /\ [][Next]_vars /\ Fairness

(***************************************************************************)
(* SpecStore: the one upload session of a writer, and the readers, of one   *)
(* object path of the stub.                                                *)
(***************************************************************************)
\* bytes one upload session sends
MaxData == 2
\* chunk PUTs of one upload session before its finalizing PUT
MaxChunks == 2

Bytes == {"x", "y"}
Payloads(n) == UNION {[1..k -> Bytes] : k \in 0..n}

Files == {FileName(ToKey(1))}

\* dispatch('POST', headers, url, None): _handle_post
HandlePost(filename) ==
  /\ upload.token = 0
  /\ upload' = [NoUpload EXCEPT !.token = upload.token + 1, !.filename = filename,
                                 !.open = TRUE]
  /\ request' = Request("POST", filename, <<>>, <<>>)
  /\ last' = Response("POST", 201, [h \in {"content-length"} |-> 0], <<>>)
  /\ UNCHANGED <<objects, listVars, parseVars>>

\* the response of a PUT and what it leaves in the store and in the session
PutDone(put, payload, kind) ==
  /\ objects' = IF put.final
                THEN [f \in DOMAIN objects \cup {upload.filename} |->
                        IF f = upload.filename THEN end_creation(put.parts)
                        ELSE objects[f]]
                ELSE objects
  /\ last' = IF put.raised # "" THEN Raised("PUT", put.raised)
             ELSE IF put.status = 200
             THEN Response("PUT", 200,
                           [x \in {"content-length"} |-> Len(end_creation(put.parts))],
                           <<>>)
             ELSE Response("PUT", put.status, <<>>, <<>>)
  /\ upload' = [token |-> upload.token,
                filename |-> upload.filename,
                parts |-> put.parts,
                open |-> upload.open /\ ~put.final,
                sent |-> IF kind \in {"chunk", "total"}
                         THEN Append(upload.sent, payload) ELSE upload.sent,
                acked |-> IF put.status = 308 /\ kind # "late"
                          THEN upload.acked + 1 ELSE upload.acked,
                fin |-> IF kind \in {"total", "empty"} THEN kind ELSE upload.fin]

\* dispatch('PUT', headers, url, payload): _handle_put, with the calls it makes
\* into the stub.  kind is the writer's intent: "chunk", "total", "empty", "bare",
\* or "late" for a chunk sent after the writer has finalized.
HandlePut(headers, payload, kind) ==
  /\ upload.token # 0
  /\ upload.fin = "none" <=> kind # "late"
  /\ request' = Request("PUT", upload.filename, headers, payload)
  /\ PutDone(handle_put(upload, headers, payload), payload, kind)
  /\ UNCHANGED <<listVars, parseVars>>

\* the bytes the writer has sent so far: the offset of its next chunk
Offset == Len(Concat(upload.sent))

\* 'bytes %d-%d/%s': the content-range of a chunk at the writer's offset
ChunkRange(payload, total) ==
  [h \in {"content-range"} |->
     <<"bytes ">> \o FormatInt(Offset) \o <<"-">>
       \o FormatInt(Offset + Len(payload) - 1) \o <<"/">> \o total]

\* write(chunk): a chunk of any size, total unknown
PutChunk(payload) ==
  /\ Len(upload.sent) < MaxChunks
  /\ HandlePut(ChunkRange(payload, <<"*">>), payload, "chunk")

\* finalize(last chunk): the last chunk with the total now known
PutTotal(payload) ==
  HandlePut(ChunkRange(payload, FormatInt(Offset + Len(payload))), payload, "total")

\* finalize(): an empty body and no content-range
PutEmpty == HandlePut(<<>>, <<>>, "empty")

\* write(chunk) on a session the writer has already finalized
PutLate(payload) == HandlePut(ChunkRange(payload, <<"*">>), payload, "late")

\* a payload without a content-range
PutBare(payload) == Len(payload) > 0 /\ HandlePut(<<>>, payload, "bare")

RangeHeaders ==
  {<<>>}
    \cup {[h \in {"range"} |-> <<"bytes", "=">> \o Str(b) \o <<"-">> \o Str(e)] :
            b \in 0..(MaxData + 1), e \in 0..(MaxData + 1)}
    \cup {[h \in {"range"} |-> <<"bytes", "=", "1">>]}

\* dispatch('GET', headers, url, None) of an object path: _handle_get
HandleGet(filename, headers) ==
  /\ request' = Request("GET", filename, headers, <<>>)
  /\ last' = handle_get(objects, filename, <<>>, headers)
  /\ UNCHANGED <<objects, upload, listVars, parseVars>>

\* dispatch('HEAD', headers, url, None): _handle_head
HandleHead(filename) ==
  /\ request' = Request("HEAD", filename, <<>>, <<>>)
  /\ last' = handle_head(objects, "HEAD", filename)
  /\ UNCHANGED <<objects, upload, listVars, parseVars>>

\* dispatch('DELETE', headers, url, None): _handle_delete
HandleDelete(filename) ==
  /\ request' = Request("DELETE", filename, <<>>, <<>>)
  /\ last' = IF filename \in DOMAIN objects
             THEN Response("DELETE", 204, <<>>, <<>>)
             ELSE Response("DELETE", 404, <<>>, <<>>)
  /\ objects' = [f \in DOMAIN objects \ {filename} |-> objects[f]]
  /\ UNCHANGED <<upload, listVars, parseVars>>

InitStore == InitAny

NextStore ==
  \/ \E f \in Files : HandlePost(f)
  \/ \E c \in Payloads(MaxData - Offset) : PutChunk(c)
  \/ \E c \in Payloads(MaxData - Offset) : PutTotal(c)
  \/ PutEmpty
  \/ \E c \in Payloads(MaxData - Offset) : PutBare(c)
  \/ \E c \in Payloads(MaxData - Offset) : PutLate(c)
  \/ \E f \in Files, h \in RangeHeaders : HandleGet(f, h)
  \/ \E f \in Files : HandleHead(f)
  \/ \E f \in Files : HandleDelete(f)

SpecStore == InitStore /\ [][NextStore]_vars

(***************************************************************************)
(* SpecParse: _ContentRange of every header value up to MaxHdrLen elements.*)
(***************************************************************************)
MaxHdrLen == 7

HdrAlphabet == {"bytes ", "0", "1", "-", "/", "*", "\n"}

InitParse ==
  /\ objects = <<>>
  /\ bucket = NoBucket
  /\ call = NoCall
  /\ prev = <<>>
  /\ reqs = <<>>
  /\ gens = [g \in 1..NumIters |-> NewGen]
  /\ running = 0
  /\ upload = NoUpload
  /\ request = NoRequest
  /\ last = NoResponse
  /\ header \in UNION {[1..n -> HdrAlphabet] : n \in 0..MaxHdrLen}
  /\ parsed = NotParsed

\* _ContentRange({'content-range': header})
ParseContentRange ==
  /\ parsed = NotParsed
  /\ parsed' = ContentRange([h \in {"content-range"} |-> header])
  /\ UNCHANGED <<objects, listVars, storeVars, header>>

NextParse == ParseContentRange

SpecParse == InitParse /\ [][NextParse]_vars

(***************************************************************************)
(* Bucket listing over the local stub (checked under Spec).                *)
(***************************************************************************)
\* the paths an iterator has yielded, in the order it yielded them
Paths(out) == [i \in 1..Len(out) |-> out[i].filename]

Ascending(paths) == \A i \in 1..(Len(paths) - 1) : StrLess(paths[i], paths[i + 1])

\* the lister was iterated once, to exhaustion, by its first iterator alone
IteratedOnce ==
  /\ bucket # NoBucket
  /\ gens[1].pc = "done"
  /\ \A g \in DOMAIN gens : g > 1 => gens[g].pc = "start"

NumObjects == Cardinality(DOMAIN objects)

OnlyMaxKeys(c) == c.marker = <<>> /\ c.prefix = <<>> /\ c.max_keys # <<>>

\* C1: for a container of N objects and 1 <= k < N, iterating
\* listbucket(container, max_keys=k) to exhaustion yields exactly k entries,
\* in strictly ascending path order.
C1_ExactlyMaxKeys ==
  (IteratedOnce /\ prev = <<>> /\ OnlyMaxKeys(call) /\ call.max_keys[1] < NumObjects)
    => /\ Len(gens[1].out) = call.max_keys[1]
       /\ Ascending(Paths(gens[1].out))

\* C2: a listing with max_keys = k < N, followed by a listing with marker set to
\* the last path the first returned and no max_keys, together yield exactly the
\* N objects of the container in ascending order, none twice and none missing.
C2_ResumeByMarker ==
  (/\ IteratedOnce
   /\ prev # <<>>
   /\ OnlyMaxKeys(prev[1].call)
   /\ prev[1].call.max_keys[1] < NumObjects)
    => Paths(prev[1].out) \o Paths(gens[1].out) = Sorted(DOMAIN objects)

\* C2 witness: a first listing cut at k = 1 of 5 objects and resumed, the
\* resumed listing running over more than one page.
C2_Witness ==
  /\ IteratedOnce
  /\ prev # <<>>
  /\ OnlyMaxKeys(prev[1].call)
  /\ prev[1].call.max_keys[1] = 1
  /\ NumObjects = 5
  /\ Len(prev[1].out) = 1
  /\ Len(gens[1].out) = 4
  /\ Len(reqs) > 2

\* the objects listbucket(marker=m, prefix=p) is to yield
Expected(c) ==
  Sorted({FileName(k) : k \in
            {x \in Keys : /\ FileName(x) \in DOMAIN objects
                          /\ c.prefix # <<>> => StartsWith(x, c.prefix[1])
                          /\ c.marker # <<>> => StrLess(c.marker[1], x)}})

\* C3: listbucket(container, marker=m, prefix=p) yields exactly the objects
\* whose name starts with p and is strictly greater than m, ascending by name.
C3_MarkerAndPrefix ==
  (IteratedOnce /\ call.max_keys = <<>>)
    => Paths(gens[1].out) = Expected(call)

\* C3 witness: over {a, aa, ab, b, ba}, prefix a with marker a has yielded
\* aa, ab (the page is full, so a second page was fetched with both options).
C3_Witness ==
  /\ IteratedOnce
  /\ NumObjects = 5
  /\ call = [marker |-> << <<"a">> >>, prefix |-> << <<"a">> >>, max_keys |-> <<>>]
  /\ Paths(gens[1].out) = <<FileName(<<"a", "a">>), FileName(<<"a", "b">>)>>
  /\ Len(reqs) = 2

(***************************************************************************)
(* Resumable upload and ranged reads of one object (checked under          *)
(* SpecStore).                                                             *)
(***************************************************************************)
\* the request just dispatched is the finalizing PUT of the upload session
Finalizes == upload.fin = "none" /\ upload'.fin # "none"

\* the object at the destination of the session is exactly content
Holds(objs, filename, content) == filename \in DOMAIN objs /\ objs[filename] = content

\* C4: whatever the chunk boundaries, chunk sizes of 0 included, the POST, the
\* chunk PUTs in order and the finalizing PUT leave at the destination the
\* concatenation of the chunks the writer sent.
C4_UploadReconstructs ==
  [][Finalizes => Holds(objects', upload.filename, Concat(upload'.sent))]_vars

\* C5: once a chunk PUT has been acknowledged, the PUT with an empty body and
\* no content-range is answered 200 and leaves the object that finalizing the
\* last chunk with a known total leaves: the chunks of the session in order.
C5_EmptyFinalize ==
  [][(Finalizes /\ upload'.fin = "empty" /\ upload.acked >= 1)
       => /\ last'.status_code = 200
          /\ Holds(objects', upload.filename, end_creation(upload.parts))]_vars

\* the request answered last is a GET of an existing object
GetOfObject ==
  /\ request.method = "GET"
  /\ request.filename \in DOMAIN objects

\* C7: a GET without a Range header of an object of size n > 0 succeeds,
\* returns the whole object and reports the range 0..n-1.
C7_UnboundedEnd ==
  (GetOfObject /\ "range" \notin DOMAIN request.headers
     /\ Len(objects[request.filename]) > 0)
    => LET n == Len(objects[request.filename])
       IN /\ last.raised = ""
          /\ last.status_code = 200
          /\ last.content = objects[request.filename]
          /\ last.headers["content-range"] = FormatRange(0, n - 1, n)

\* C8: a GET with Range bytes=s-e and s at or past the size of the object is
\* answered with an error, never with a success.
C8_StartPastSize ==
  (GetOfObject /\ "range" \in DOMAIN request.headers
     /\ Range(request.headers).raised = ""
     /\ Range(request.headers).start >= Len(objects[request.filename]))
    => (last.raised # "" \/ last.status_code >= 400)

(***************************************************************************)
(* The content-range header (checked under SpecParse).                     *)
(***************************************************************************)
\* the positions of "-" and "/" in a value of the grammar
\* 'bytes <digits>-<digits>/<digits or *>', <<>> for a value outside it
Grammar(s) ==
  LET dashes == {i \in 1..Len(s) : s[i] = "-"}
      slashes == {i \in 1..Len(s) : s[i] = "/"}
      dash == CHOOSE i \in dashes : TRUE
      slash == CHOOSE i \in slashes : TRUE
  IN IF /\ Len(s) >= 6
        /\ s[1] = "bytes "
        /\ Cardinality(dashes) = 1 /\ Cardinality(slashes) = 1
        /\ 2 < dash /\ dash + 1 < slash /\ slash < Len(s)
        /\ \A i \in (2..(dash - 1)) \cup ((dash + 1)..(slash - 1)) : s[i] \in Digits
        /\ \/ SubSeq(s, slash + 1, Len(s)) = <<"*">>
           \/ \A i \in (slash + 1)..Len(s) : s[i] \in Digits
     THEN <<[dash |-> dash, slash |-> slash]>>
     ELSE <<>>

\* C6: a value of the grammar parses to its start and end, final exactly when
\* the total is a number; every other value that is present is a format error.
C6_ParseContentRange ==
  (parsed # NotParsed)
    => LET g == Grammar(header)
       IN IF g = <<>>
          THEN parsed.raised = "ValueError"
          ELSE /\ parsed.raised = ""
               /\ parsed.attrs =
                    <<[start |-> Long(SubSeq(header, 2, g[1].dash - 1)),
                       end |-> Long(SubSeq(header, g[1].dash + 1, g[1].slash - 1)),
                       finished |-> header[Len(header)] # "*"]>>

(***************************************************************************)
(* The page iterator and its transport calls.                              *)
(***************************************************************************)
\* the page requests issued and not yet answered
Outstanding == {i \in DOMAIN reqs : reqs[i].resp = <<>>}

\* this step issues a page request
Issues == Len(reqs') > Len(reqs)

\* the entries of the page iterator g holds are the last ones it yielded
PageYielded(g) ==
  LET page == gens[g].root.Contents
      out == gens[g].out
  IN /\ gens[g].pos > Len(page)
     /\ Len(out) >= Len(page)
     /\ \A i \in 1..Len(page) :
          out[Len(out) - Len(page) + i].filename = bucket.path \o <<"/">> \o page[i].Key

\* C9: the lister stops yielding and stops fetching once the running count of
\* yielded entries reaches the caller's max_keys, or once a page carries no
\* next-marker: an iteration never yields more than max_keys entries, and no
\* page request is issued after either condition holds.
C9_StopAtMaxKeys ==
  /\ [](\A g \in DOMAIN gens :
          call.max_keys # <<>> => Len(gens[g].out) <= call.max_keys[1])
  /\ [][(Issues /\ running # 0)
          => /\ call.max_keys # <<>> => Len(gens[running].out) < call.max_keys[1]
             /\ gens[running].root.NextMarker # <<>>]_vars

\* this step constructs a lister (listbucket returns a new _Bucket)
Constructs == bucket = NoBucket \/ prev' # prev

\* no iterator but the first was taken from the lister
OnlyFirstIterator == \A g \in DOMAIN gens : g > 1 => gens[g].pc = "start"

Answered == {i \in DOMAIN reqs : reqs[i].resp # <<>>}

\* the value of a query parameter, '' when it is not sent
QueryOf(query, name) == IF name \in DOMAIN query THEN query[name] ELSE <<>>

\* the objects of the container that match the prefix and the marker of a query
Matching(query) ==
  {f \in DOMAIN objects :
     /\ StartsWith(f, FileName(QueryOf(query, "prefix")))
     /\ QueryOf(query, "marker") # <<>> => StrLess(FileName(QueryOf(query, "marker")), f)}

\* the matching objects that are not on the page
BeyondPage(query, page) ==
  {f \in Matching(query) : \A i \in 1..Len(page.Contents) : FileName(page.Contents[i].Key) # f}

\* C11: a page of the stub carries NextMarker exactly when matching objects
\* exist beyond the page, and the marker is the key of the last entry of the page.
C11_MarkerIffMore ==
  \A i \in Answered :
    LET page == reqs[i].resp[1].content
    IN /\ page.NextMarker # <<>> <=> BeyondPage(reqs[i].query, page) # {}
       /\ page.NextMarker # <<>>
            => /\ page.Contents # <<>>
               /\ page.NextMarker[1] = page.Contents[Len(page.Contents)].Key

(***************************************************************************)
(* The acknowledgements of PUT (checked under SpecStore).                  *)
(***************************************************************************)
\* this step dispatches a PUT
PutStep == request'.method = "PUT"

\* the content-range of a request is of the grammar, with total * or a number
HasRange(req, star) ==
  /\ "content-range" \in DOMAIN req.headers
  /\ LET value == req.headers["content-range"]
     IN Grammar(value) # <<>> /\ (value[Len(value)] = "*" <=> star)

\* no content-range and an empty payload
BareEmpty(req) == "content-range" \notin DOMAIN req.headers /\ req.payload = <<>>

\* C12: a PUT to an open session is answered 308 and leaves the session open
\* exactly when its content-range has total *, and is answered 200 and
\* finalizes the object exactly when the total is a number or the header is
\* absent with an empty payload; 200 always finalizes; a finalized session
\* answers neither.
C12_AckNotConfused ==
  [][PutStep
       => /\ upload.open
               => /\ (last'.status_code = 308 /\ upload'.open) <=> HasRange(request', TRUE)
                  /\ (last'.status_code = 200 /\ ~upload'.open
                        /\ upload.filename \in DOMAIN objects')
                       <=> (HasRange(request', FALSE) \/ BareEmpty(request'))
          /\ last'.status_code = 200 => (upload.open /\ ~upload'.open)
          /\ ~upload.open => last'.status_code \notin {200, 308}]_vars

\* a PUT that carries a payload and no content-range header
BarePayload(req) ==
  req.method = "PUT" /\ "content-range" \notin DOMAIN req.headers /\ req.payload # <<>>

\* C13: a PUT with a payload and no content-range is rejected with a format
\* error and changes nothing: the chunks of the session, whether it is open,
\* and the objects of the store stay as they were.
C13_BarePayloadRejected ==
  [][BarePayload(request')
       => /\ last'.raised = "ValueError"
          /\ upload'.parts = upload.parts
          /\ upload'.open = upload.open
          /\ objects' = objects]_vars

\* C13 witness: the payload without a content-range was rejected in a session
\* that holds an acknowledged chunk and is still open.
C13_Witness ==
  /\ BarePayload(request)
  /\ last.raised = "ValueError"
  /\ upload.parts # {}
  /\ upload.open

\* C14: a GET, with a well-formed Range header or with none, of an object
\* that does not exist (never created, or deleted since an earlier GET) is
\* answered 404 and fails in no other way.
C14_GetOfAbsentObject ==
  (/\ request.method = "GET"
   /\ request.filename \notin DOMAIN objects
   /\ Range(request.headers).raised = "")
    => (last.raised = "" /\ last.status_code = 404)

\* the content-range parser applied to the content-range of the last response
ParsedBack == ContentRange([h \in {"content-range"} |-> last.headers["content-range"]])

\* C15: for 0 <= start <= end < size, the content-range a GET emits for
\* (start, end, size) is accepted by the content-range parser and parses back
\* to start, end and the total size.
C15_FormatParseInverse ==
  (/\ GetOfObject
   /\ last.raised = "" /\ last.status_code = 200
   /\ Range(request.headers).start <= Range(request.headers).end[1]
   /\ Range(request.headers).start < Len(objects[request.filename]))
    => LET size == Len(objects[request.filename])
           start == Range(request.headers).start
           end == PyMin(size - 1, Range(request.headers).end)[1]
       IN /\ last.content = SubSeq(objects[request.filename], start + 1, end + 1)
          /\ ParsedBack.raised = ""
          /\ ParsedBack.attrs = <<[start |-> start, end |-> end, finished |-> TRUE]>>
          /\ RE_PATTERN_match(last.headers["content-range"])[1].g3 = Str(size)

(***************************************************************************)
(* The cursor of the lister (checked under Spec).                          *)
(***************************************************************************)
\* the options of a request but for the marker
Fixed(options) == [k \in DOMAIN options \ {"marker"} |-> options[k]]

\* the paths the iterators of the lister have yielded
YieldedPaths == UNION {{gens[g].out[i].filename : i \in 1..Len(gens[g].out)} : g \in DOMAIN gens}

\* C16: the cursor of a lister only advances: the marker of each page request
\* is strictly greater than the marker of the request before it and is behind
\* no path already yielded (the marker is exclusive, so it may be the last of
\* them); prefix and max-keys are those of the request before.
C16_CursorAdvances ==
  [][(Issues /\ ~Constructs)
       => /\ "marker" \in DOMAIN bucket'.options
          /\ "marker" \in DOMAIN bucket.options
               => StrLess(bucket.options["marker"], bucket'.options["marker"])
          /\ \A f \in YieldedPaths : ~StrLess(FileName(bucket'.options["marker"]), f)
          /\ Fixed(bucket'.options) = Fixed(bucket.options)]_vars

(***************************************************************************)
(* Errors of the transport (checked under SpecAny).                        *)
(***************************************************************************)
\* the iterator g is about to take a response whose status is not 200
Fails(g) ==
  /\ running = g
  /\ gens[g].pc = "while"
  /\ bucket.fut # 0
  /\ reqs[bucket.fut].resp # <<>>
  /\ reqs[bucket.fut].resp[1].status_code # 200

\* an iteration of the lister has ended in an error
Surfaced == \E g \in DOMAIN gens : gens[g].pc = "raised"

MovedPast(f) ==
  /\ "marker" \in DOMAIN bucket.options
  /\ ~StrLess(FileName(bucket.options["marker"]), f)

\* the iterator g yields in this step
Yields(g) == Len(gens'[g].out) > Len(gens[g].out)

\* an iteration has run to exhaustion
Exhausted == \E h \in DOMAIN gens : gens[h].pc = "done"

\* C18: an iteration begun after an earlier one consumed entries (the
\* iterators begin in the order of their numbers, each after the first yield
\* of the one before) never yields again an entry that the earlier iteration
\* yielded and the cursor has moved past; an iteration begun after one ran to
\* exhaustion finds no pending fetch, yields nothing and issues no request.
C18_NotRestartable ==
  /\ [][\A g \in DOMAIN gens : \A h \in 1..(g - 1) :
          (Yields(g) /\ ~Constructs)
            => LET f == gens'[g].out[Len(gens'[g].out)].filename
               IN ~(MovedPast(f) /\ \E i \in 1..Len(gens[h].out) : gens[h].out[i].filename = f)]_vars
  /\ [][\A g \in DOMAIN gens :
          (gens[g].pc = "start" /\ gens'[g].pc = "while" /\ Exhausted)
            => bucket.fut = 0]_vars
  /\ [][\A g \in DOMAIN gens :
          (running = g /\ gens[g].pc = "while" /\ bucket.fut = 0 /\ gens'[g] # gens[g])
            => (gens'[g].pc = "done" /\ gens'[g].out = gens[g].out /\ ~Issues)]_vars

(***************************************************************************)
(* A listing of more objects than one page holds (checked under Spec).     *)
(***************************************************************************)
\* no object the listing is to yield lies between two paths yielded in a row
NoneSkipped(c, paths) ==
  \A i \in 1..(Len(paths) - 1) :
    \A j \in 1..Len(Expected(c)) :
      ~(StrLess(paths[i], Expected(c)[j]) /\ StrLess(Expected(c)[j], paths[i + 1]))

\* C19: when more objects match than one page holds and no max_keys is given,
\* iterating the lister to exhaustion yields every matching object exactly
\* once, in strictly ascending path order, none repeated and none skipped
\* where one page ends and the next begins.
C19_EveryObjectOnce ==
  (IteratedOnce /\ call.max_keys = <<>> /\ Len(Expected(call)) > MAX_GET_BUCKET_RESULT)
    => /\ Len(gens[1].out) = Len(Expected(call))
       /\ \A j \in 1..Len(Expected(call)) :
            Cardinality({i \in 1..Len(gens[1].out) : gens[1].out[i].filename = Expected(call)[j]}) = 1
       /\ Ascending(Paths(gens[1].out))
       /\ NoneSkipped(call, Paths(gens[1].out))

\* C19 witness: five objects listed over three pages of two, two and one
C19_Witness ==
  /\ IteratedOnce
  /\ prev = <<>>
  /\ call = NoCall
  /\ NumObjects = 5
  /\ Len(gens[1].out) = 5
  /\ Len(reqs) = 3
  /\ \A i \in DOMAIN reqs : reqs[i].resp # <<>>

(***************************************************************************)
(* Termination of the iteration (checked under FairSpec).                  *)
(***************************************************************************)
\* the lister has no pending fetch
NoPendingFetch == bucket # NoBucket /\ bucket.fut = 0

\* the page requests one iteration of a first listing may take: one for every
\* full page of the container and one more
RequestsBound == (NumObjects \div MAX_GET_BUCKET_RESULT) + 1

\* C20: with every page request answered by the stub (status 200), a lister
\* that is iterated reaches the state with no pending fetch, whatever the
\* container, marker, prefix and max_keys; one iteration to exhaustion has then
\* issued no more than one request for every full page of the container and
\* one more (a container of an exact multiple of the page cap included).
C20_Terminates ==
  /\ (bucket # NoBucket) ~> NoPendingFetch
  /\ []((IteratedOnce /\ prev = <<>>) => (NoPendingFetch /\ Len(reqs) <= RequestsBound))

\* C20 witness: four objects, two full pages, listed to the end in three requests
C20_Witness ==
  /\ IteratedOnce
  /\ prev = <<>>
  /\ NoPendingFetch
  /\ NumObjects = 2 * MAX_GET_BUCKET_RESULT
  /\ call.marker = <<>> /\ call.prefix = <<>>
  /\ Len(gens[1].out) = NumObjects
  /\ Len(reqs) = 3
  /\ \A i \in DOMAIN reqs : reqs[i].resp # <<>> /\ reqs[i].resp[1].status_code = 200

====
